---- MODULE Spec2Model ----
(***************************************************************************)
(* Pharmacy rota generator: the RotaScheduler engine (scheduler.py), its   *)
(* data classes (models.py), its configuration (config.py) and the CLI     *)
(* wrapper generate_rota (main.py).                                        *)
(*                                                                         *)
(* Times are minutes since midnight, dates are day ordinals.  An Optional  *)
(* value is a sequence of length 0 (None) or 1.  A call returns a record   *)
(* [exc, val]: exc = "" and val = <<result>> on return, exc = the          *)
(* exception's name and val = <<>> when the call raises.                   *)
(***************************************************************************)
EXTENDS Integers, Sequences, FiniteSets, TLC

VARIABLES
    pharmacists,        \* self.pharmacists
    ward_requirements,  \* self.ward_requirements
    clinics,            \* self.clinics
    given,              \* the arguments RotaScheduler was constructed with
    daily_rota,         \* the DailyRota a phase method is called on
    weekly_rota,        \* the WeeklyRota the balancer is called on
    call,               \* the method called last, "none" before any call
    before,             \* the arguments of that call as they were passed
    outcome,            \* what that call returned or raised
    results             \* the outcomes of the runs of generate_weekly_rota

vars == <<pharmacists, ward_requirements, clinics, given, daily_rota,
          weekly_rota, call, before, outcome, results>>

\* ------------------------------------------------------------------ bounds
MaxStaff == 3
MaxStartDate == 1
MaxRuns == 2
MaxBalanceStaff == 3
MaxTimeSteps == 20
MaxTravelSteps == 2
MaxFillStaff == 3

\* ------------------------------------------------------------------- enums
Day == <<"MONDAY", "TUESDAY", "WEDNESDAY", "THURSDAY", "FRIDAY">>

WardArea == <<"EAU", "SURGERY", "ITU", "CARE_OF_ELDERLY", "MEDICINE">>

Band == {"BAND6", "BAND7", "BAND8"}

DISPENSARY_SLOTS == <<"SLOT_9_11", "SLOT_11_1", "SLOT_1_3", "SLOT_3_5">>

Range(s) == {s[i] : i \in 1..Len(s)}

Days == Range(Day)

Wards == Range(WardArea)

DayIndex(day) == CHOOSE i \in 1..Len(Day) : Day[i] = day

None == <<>>

Return(v) == [exc |-> "", val |-> <<v>>]

Raise(e) == [exc |-> e, val |-> <<>>]

\* ------------------------------------------------------------ models.py
\* Pharmacist.__post_init__: an empty availability dict becomes all-True.
AllAvailable == [d \in Days |-> TRUE]

PharmacistPostInit(p) ==
    IF DOMAIN p.availability = {}
    THEN [p EXCEPT !.availability = AllAvailable]
    ELSE p

\* p.availability.get(day, False)
AvailableOn(p, day) ==
    day \in DOMAIN p.availability /\ p.availability[day]

can_cover_dispensary(p) == p.band \in {"BAND6", "BAND7"}

can_cover_itu(p) == p.itu_trained

\* @dataclass with eq=True and without frozen/unsafe_hash sets __hash__ to
\* None: a Pharmacist cannot be hashed, so it cannot be put in a set nor be
\* tested for membership in one.
PharmacistHashable == FALSE

\* hash() is applied to each element of s: raises TypeError on the first.
HashRaises(s) == s # <<>> /\ ~PharmacistHashable

DailyRota(day, date) ==
    [day |-> day, date |-> date, dispensary_shifts |-> <<>>,
     ward_assignments |-> <<>>, clinic_assignments |-> <<>>,
     lunch_cover |-> None]

\* current_date is never advanced: every day gets the start date
WeeklyRotaPostInit_SameDate(start_date) ==
    [start_date |-> start_date,
     daily_rotas |-> [d \in {Day[i] : i \in 1..5} |->
                        [day |-> d, date |-> start_date, dispensary_shifts |-> <<>>,
                         ward_assignments |-> <<>>, clinic_assignments |-> <<>>,
                         lunch_cover |-> <<>>]]]

\* WeeklyRota.__post_init__: one empty DailyRota per Day, dates advancing by
\* one day from start_date.
WeeklyRotaPostInit(start_date) ==
    [start_date |-> start_date,
     daily_rotas |-> [d \in Days |->
                        DailyRota(d, start_date + (DayIndex(d) - 1))]]

SlotTimes ==
    [SLOT_9_11 |-> <<540, 660>>, SLOT_11_1 |-> <<660, 780>>,
     SLOT_1_3 |-> <<780, 900>>, SLOT_3_5 |-> <<900, 1020>>]

\* the overlap test with closed intervals: touching endpoints conflict
conflicting_dispensary_slots_Touching(c) ==
    LET start_with_travel == c.start_time - c.travel_time_before
        end_with_travel == c.end_time + c.travel_time_after
    IN {s \in Range(DISPENSARY_SLOTS) :
          ~(end_with_travel < SlotTimes[s][1]
            \/ start_with_travel > SlotTimes[s][2])}

\* Clinic.conflicting_dispensary_slots
conflicting_dispensary_slots(c) ==
    LET start_with_travel == c.start_time - c.travel_time_before
        end_with_travel == c.end_time + c.travel_time_after
    IN {s \in Range(DISPENSARY_SLOTS) :
          ~(end_with_travel <= SlotTimes[s][1]
            \/ start_with_travel >= SlotTimes[s][2])}

\* ------------------------------------------------------------ config.py
Req(mn, ideal) == [min_pharmacists |-> mn, ideal_pharmacists |-> ideal]

DEFAULT_WARD_REQUIREMENTS ==
    [k \in Wards \X Days |->
       IF k[1] = "ITU" THEN Req(0, 1)
       ELSE IF k[1] = "MEDICINE"
            THEN (IF k[2] \in {"WEDNESDAY", "THURSDAY"} THEN Req(3, 6)
                  ELSE Req(4, 6))
            ELSE Req(1, 2)]

Clinic(type, day, start, end) ==
    [clinic_type |-> type, day |-> day, start_time |-> start,
     end_time |-> end, travel_time_before |-> 30, travel_time_after |-> 30]

DEFAULT_CLINICS ==
    << Clinic("PHAR2PSP", "TUESDAY", 780, 900),
       Clinic("PHARM1A", "MONDAY", 540, 780),
       Clinic("PHAR2PGC", "TUESDAY", 780, 900),
       Clinic("PHARM3A", "WEDNESDAY", 540, 810),
       Clinic("PHARM4A", "THURSDAY", 540, 720),
       Clinic("PHAR5AFC", "FRIDAY", 540, 780) >>

DEFAULT_LUNCH_START == 750

DEFAULT_LUNCH_END == 795


\* ---------------------------------------------------------- scheduler.py
\* RotaScheduler.__init__: a falsy argument (omitted, or an empty dict/list)
\* is replaced by the default.
OrDefault(arg, default) ==
    IF arg = None \/ arg[1] = <<>> THEN default ELSE arg[1]

ClinicPharmacists(dr) ==
    [i \in 1..Len(dr.clinic_assignments) |-> dr.clinic_assignments[i].pharmacist]

\* the clinics taken in input order, without the sort
priority_clinics_InputOrder(cs) == cs

\* sorted(clinics, key=...): stable, PHAR2PSP first
priority_clinics(cs) ==
    SelectSeq(cs, LAMBDA c : c.clinic_type = "PHAR2PSP")
      \o SelectSeq(cs, LAMBDA c : c.clinic_type # "PHAR2PSP")

\* the filter without "not already holding a clinic today"
suitable_pharmacists_AnyTrained(dr, available) ==
    SelectSeq(available, LAMBDA p : p.warfarin_trained)

\* the filter of one iteration of the loop of _assign_clinics
suitable_pharmacists(dr, available) ==
    SelectSeq(available,
              LAMBDA p : p.warfarin_trained
                         /\ p \notin Range(ClinicPharmacists(dr)))

RECURSIVE AssignClinicsLoop(_, _, _)
AssignClinicsLoop(dr, cs, available) ==
    IF cs = <<>> THEN dr
    ELSE LET suitable == suitable_pharmacists(dr, available)
             dr2 == IF suitable # <<>>
                    THEN [dr EXCEPT !.clinic_assignments =
                            Append(@, [clinic |-> Head(cs), day |-> dr.day,
                                       pharmacist |-> suitable[1]])]
                    ELSE dr
         IN AssignClinicsLoop(dr2, Tail(cs), available)

assign_clinics(dr, cs, available) ==
    AssignClinicsLoop(dr, priority_clinics(cs), available)

Some(p) == <<p>>

DispensaryShift(day, slot, holder) ==
    [day |-> day, slot |-> slot, assigned_pharmacist |-> holder]

\* {shift.assigned_pharmacist for shift in dr.dispensary_shifts if assigned}
AssignedDispensary(dr) ==
    SelectSeq([i \in 1..Len(dr.dispensary_shifts) |->
                 dr.dispensary_shifts[i].assigned_pharmacist],
              LAMBDA h : h # None)

\* the clinic assignments of dr whose clinic conflicts with the slot
ConflictingAssignments(dr, slot) ==
    SelectSeq(dr.clinic_assignments,
              LAMBDA a : slot \in conflicting_dispensary_slots(a.clinic))

\* One iteration of the per-slot loop of _assign_dispensary_shifts.  Three
\* sets of Pharmacist are built or searched: clinic_conflicts (add),
\* "p not in clinic_conflicts" and already_assigned / "p not in
\* already_assigned".
SlotStep(dr, slot, dispensary_pharmacists) ==
    LET conflicting == ConflictingAssignments(dr, slot)
        clinic_conflicts == {conflicting[i].pharmacist : i \in 1..Len(conflicting)}
        available_for_slot ==
            SelectSeq(dispensary_pharmacists, LAMBDA p : p \notin clinic_conflicts)
        held == AssignedDispensary(dr)
        already_assigned == {held[i][1] : i \in 1..Len(held)}
        preferred_pharmacists ==
            SelectSeq(available_for_slot, LAMBDA p : p \notin already_assigned)
        holder == IF preferred_pharmacists # <<>> THEN Some(preferred_pharmacists[1])
                  ELSE IF available_for_slot # <<>> THEN Some(available_for_slot[1])
                  ELSE None
    IN IF HashRaises(conflicting) \/ HashRaises(dispensary_pharmacists)
          \/ HashRaises(held)
       THEN [exc |-> "TypeError", dr |-> dr]
       ELSE [exc |-> "",
             dr |-> [dr EXCEPT !.dispensary_shifts =
                        Append(@, DispensaryShift(dr.day, slot, holder))]]

RECURSIVE SlotLoop(_, _, _)
SlotLoop(dr, slots, dispensary_pharmacists) ==
    IF slots = <<>> THEN [exc |-> "", dr |-> dr]
    ELSE LET r == SlotStep(dr, Head(slots), dispensary_pharmacists)
         IN IF r.exc # "" THEN r
            ELSE SlotLoop(r.dr, Tail(slots), dispensary_pharmacists)

\* the pool without the Band 6/7 filter
dispensary_pool_Everybody(available) == available

\* the pool of _assign_dispensary_shifts: Band 6/7, else everybody
dispensary_pool(available) ==
    LET eligible == SelectSeq(available, can_cover_dispensary)
    IN IF eligible = <<>> /\ available # <<>> THEN available ELSE eligible

dedicated_dispensary(available) ==
    SelectSeq(dispensary_pool(available), LAMBDA p : p.default_pharmacist)

\* _assign_dispensary_shifts: [exc, dr], dr being the rota as the call
\* leaves it (shifts appended before a raise stay appended).
assign_dispensary_shifts(dr, available) ==
    LET dedicated == dedicated_dispensary(available)
    IN IF dedicated # <<>>
       THEN [exc |-> "",
             dr |-> [dr EXCEPT !.dispensary_shifts =
                       @ \o [i \in 1..Len(DISPENSARY_SLOTS) |->
                               DispensaryShift(dr.day, DISPENSARY_SLOTS[i],
                                               Some(dedicated[1]))]]]
       ELSE SlotLoop(dr, DISPENSARY_SLOTS, dispensary_pool(available))

\* _get_dispensary_pharmacist: builds a set of the assigned holders
get_dispensary_pharmacist(dr) ==
    LET held == AssignedDispensary(dr)
        holders == {held[i][1] : i \in 1..Len(held)}
    IN IF HashRaises(held) THEN Raise("TypeError")
       ELSE IF Cardinality(holders) = 1
            THEN Return(Some(CHOOSE p \in holders : TRUE))
            ELSE Return(None)

\* self.ward_requirements.get((ward, day))
GetRequirement(reqs, ward, day) ==
    IF <<ward, day>> \in DOMAIN reqs THEN Some(reqs[<<ward, day>>]) ELSE None

\* list.remove(x): drops the first element equal to x
RECURSIVE Remove(_, _)
Remove(s, x) ==
    IF s = <<>> THEN <<>>
    ELSE IF Head(s) = x THEN Tail(s)
         ELSE <<Head(s)>> \o Remove(Tail(s), x)

\* The state of _assign_ward_areas: the rota, the list unassigned_pharmacists
\* (mutated in place) and the local ward_assignments dict, kept as counts.
AssignWard(st, ward, p) ==
    [dr |-> [st.dr EXCEPT !.ward_assignments =
               Append(@, [ward_area |-> ward, day |-> st.dr.day, pharmacist |-> p])],
     pool |-> Remove(st.pool, p),
     count |-> [st.count EXCEPT ![ward] = @ + 1]]

\* the first pass without the test of the minimum
ItuPass_AnyMinimum(reqs, st) ==
    LET itu_trained == SelectSeq(st.pool, can_cover_itu)
    IN IF GetRequirement(reqs, "ITU", st.dr.day) # None /\ itu_trained # <<>>
       THEN AssignWard(st, "ITU", itu_trained[1])
       ELSE st

\* First pass: ITU, if required and a trained pharmacist is unassigned
ItuPass(reqs, st) ==
    LET itu_requirement == GetRequirement(reqs, "ITU", st.dr.day)
        itu_trained == SelectSeq(st.pool, can_cover_itu)
    IN IF itu_requirement # None /\ itu_requirement[1].min_pharmacists > 0
          /\ itu_trained # <<>>
       THEN AssignWard(st, "ITU", itu_trained[1])
       ELSE st

\* the second pass sending everybody home whatever the ward's count
RECURSIVE HomeWardPass_AnyCount(_, _, _)
HomeWardPass_AnyCount(reqs, st, snapshot) ==
    IF snapshot = <<>> THEN st
    ELSE HomeWardPass_AnyCount(
           reqs,
           IF GetRequirement(reqs, Head(snapshot).primary_directorate, st.dr.day) # None
           THEN AssignWard(st, Head(snapshot).primary_directorate, Head(snapshot))
           ELSE st,
           Tail(snapshot))

\* Second pass: each pharmacist of list(unassigned_pharmacists) to the
\* primary directorate while it is below its ideal count
RECURSIVE HomeWardPass(_, _, _)
HomeWardPass(reqs, st, snapshot) ==
    IF snapshot = <<>> THEN st
    ELSE LET pharmacist == Head(snapshot)
             primary_area == pharmacist.primary_directorate
             requirement == GetRequirement(reqs, primary_area, st.dr.day)
             st2 == IF requirement # None
                       /\ st.count[primary_area] < requirement[1].ideal_pharmacists
                    THEN AssignWard(st, primary_area, pharmacist)
                    ELSE st
         IN HomeWardPass(reqs, st2, Tail(snapshot))

\* the inner loops of the fill pass: the first pharmacist, in list order,
\* holding the strictly lowest rank for the ward
RECURSIVE ScanPreferences(_, _, _, _)
ScanPreferences(prefs, ward, pharmacist, best) ==
    IF prefs = <<>> THEN best
    ELSE LET pref == Head(prefs)
             better == pref.ward_area = ward
                       /\ (best.match = None \/ pref.rank < best.rank)
         IN ScanPreferences(Tail(prefs), ward, pharmacist,
                            IF better
                            THEN [match |-> Some(pharmacist), rank |-> pref.rank]
                            ELSE best)

RECURSIVE ScanPool(_, _, _)
ScanPool(pool, ward, best) ==
    IF pool = <<>> THEN best
    ELSE ScanPool(Tail(pool), ward,
                  ScanPreferences(Head(pool).preferences, ward, Head(pool), best))

\* the pick taking the head of the pool whatever the preferences
best_match_FirstInPool(pool, ward) ==
    IF pool = <<>> THEN None ELSE Some(pool[1])

best_match(pool, ward) ==
    LET best == ScanPool(pool, ward, [match |-> None, rank |-> 0])
    IN IF best.match = None /\ pool # <<>> THEN Some(pool[1]) ELSE best.match

\* the fill of a ward stopping after its first pick
FillWard_OnePick(st, ward, requirement) ==
    IF st.count[ward] < requirement.min_pharmacists /\ st.pool # <<>>
    THEN AssignWard(st, ward, best_match(st.pool, ward)[1])
    ELSE st

\* while len(ward_assignments[ward]) < min_pharmacists and unassigned_pharmacists
RECURSIVE FillWard(_, _, _)
FillWard(st, ward, requirement) ==
    IF st.count[ward] < requirement.min_pharmacists /\ st.pool # <<>>
    THEN LET m == best_match(st.pool, ward)
         IN IF m # None THEN FillWard(AssignWard(st, ward, m[1]), ward, requirement)
            ELSE st
    ELSE st

\* Third pass: every ward of WardArea, in order, up to its minimum; ITU and
\* wards without a requirement are skipped
RECURSIVE FillPass(_, _, _)
FillPass(reqs, st, wards) ==
    IF wards = <<>> THEN st
    ELSE LET ward_area == Head(wards)
             requirement == GetRequirement(reqs, ward_area, st.dr.day)
             st2 == IF requirement = None \/ ward_area = "ITU" THEN st
                    ELSE FillWard(st, ward_area, requirement[1])
         IN FillPass(reqs, st2, Tail(wards))

\* _assign_ward_areas: [dr, pool, count] as the call leaves them
assign_ward_areas(reqs, dr, unassigned_pharmacists) ==
    LET st0 == [dr |-> dr, pool |-> unassigned_pharmacists,
                count |-> [w \in Wards |-> 0]]
        st1 == ItuPass(reqs, st0)
        st2 == HomeWardPass(reqs, st1, st1.pool)
    IN FillPass(reqs, st2, WardArea)

\* _generate_daily_rota, lines 117-126: everybody named in a clinic
\* assignment, a dispensary shift or the lunch cover is already assigned
Committed(dr) ==
    Range(ClinicPharmacists(dr))
      \cup {h[1] : h \in Range(AssignedDispensary(dr))}
      \cup {dr.lunch_cover[i].pharmacist : i \in 1..Len(dr.lunch_cover)}

WardPhase(reqs, dr, available_pharmacists) ==
    Return(assign_ward_areas(reqs, dr,
                             SelectSeq(available_pharmacists,
                                       LAMBDA p : p \notin Committed(dr))).dr)

\* lines 104-115: the first available pharmacist who holds no clinic and is
\* not the dispensary pharmacist covers lunch
LunchPhase(dr, dispensary_pharmacist, available_pharmacists) ==
    LET lunch_cover_candidates ==
            SelectSeq(available_pharmacists,
                      LAMBDA p : p \notin Range(ClinicPharmacists(dr))
                                 /\ Some(p) # dispensary_pharmacist)
    IN IF dispensary_pharmacist # None /\ lunch_cover_candidates # <<>>
       THEN [dr EXCEPT !.lunch_cover =
               Some([day |-> dr.day, pharmacist |-> lunch_cover_candidates[1],
                     start_time |-> DEFAULT_LUNCH_START,
                     end_time |-> DEFAULT_LUNCH_END])]
       ELSE dr

\* lines 103-126, rG being what _get_dispensary_pharmacist returned or raised
AfterLookup(reqs, dr, rG, available_pharmacists) ==
    IF rG.exc # "" THEN Raise(rG.exc)
    ELSE WardPhase(reqs, LunchPhase(dr, rG.val[1], available_pharmacists),
                   available_pharmacists)

\* lines 98-126, rB being what _assign_dispensary_shifts left or raised; the
\* set of line 99 hashes every assigned holder
AfterDispensary(reqs, rB, available_pharmacists) ==
    IF rB.exc # "" THEN Raise(rB.exc)
    ELSE IF HashRaises(AssignedDispensary(rB.dr)) THEN Raise("TypeError")
    ELSE AfterLookup(reqs, rB.dr, get_dispensary_pharmacist(rB.dr),
                     available_pharmacists)

\* lines 91-126: the set of line 92 hashes every clinic pharmacist, the
\* filter of line 95 hashes every available pharmacist
AfterClinics(reqs, dr, available_pharmacists) ==
    IF HashRaises(ClinicPharmacists(dr)) \/ HashRaises(available_pharmacists)
    THEN Raise("TypeError")
    ELSE AfterDispensary(
           reqs,
           assign_dispensary_shifts(
             dr, SelectSeq(available_pharmacists,
                           LAMBDA p : p \notin Range(ClinicPharmacists(dr)))),
           available_pharmacists)

\* lines 83-126
DailyPhases(reqs, rota, daily_clinics, available_pharmacists) ==
    IF available_pharmacists = <<>> THEN Return(rota)
    ELSE AfterClinics(reqs,
                      assign_clinics(rota, daily_clinics, available_pharmacists),
                      available_pharmacists)

available_on(roster, day) == SelectSeq(roster, LAMBDA p : AvailableOn(p, day))

\* _generate_daily_rota
generate_daily_rota(roster, reqs, cls, day, date) ==
    DailyPhases(reqs, DailyRota(day, date),
                SelectSeq(cls, LAMBDA c : c.day = day),
                available_on(roster, day))

\* the days of a WeeklyRota in the order of daily_rotas.values()
RotaDays(wr) == SelectSeq(Day, LAMBDA d : d \in DOMAIN wr.daily_rotas)

ShiftHolders(dr) ==
    [i \in 1..Len(dr.dispensary_shifts) |-> dr.dispensary_shifts[i].assigned_pharmacist]

\* the holders' ids of the whole week, in the order the counting loop
\* (days, then shifts) meets them
RECURSIVE HolderIds(_, _)
HolderIds(wr, days) ==
    IF days = <<>> THEN <<>>
    ELSE LET assigned == SelectSeq(ShiftHolders(wr.daily_rotas[Head(days)]),
                                   LAMBDA h : h # None)
         IN [i \in 1..Len(assigned) |-> assigned[i][1].id]
              \o HolderIds(wr, Tail(days))

Count(s, x) == Cardinality({i \in 1..Len(s) : s[i] = x})

\* shift_counts: only ids that hold at least one shift have an entry
shift_counts(wr) ==
    LET ids == HolderIds(wr, RotaDays(wr))
    IN [pid \in Range(ids) |-> Count(ids, pid)]

\* the keys of a dict built from ids met in this order
RECURSIVE KeyOrder(_)
KeyOrder(ids) ==
    IF ids = <<>> THEN <<>>
    ELSE LET init == KeyOrder(SubSeq(ids, 1, Len(ids) - 1))
             last == ids[Len(ids)]
         IN IF last \in Range(init) THEN init ELSE Append(init, last)

Restrict(f, S) == [x \in S |-> f[x]]

\* the first pharmacist of the roster with the id, available or not
underloaded_pharmacist_AnyDay(roster, p_id, day) ==
    LET found == SelectSeq(roster, LAMBDA p : p.id = p_id)
    IN IF found = <<>> THEN None ELSE Some(found[1])

\* next((p for p in self.pharmacists if p.id == p_id and available), None)
underloaded_pharmacist(roster, p_id, day) ==
    LET found == SelectSeq(roster, LAMBDA p : p.id = p_id /\ AvailableOn(p, day))
    IN IF found = <<>> THEN None ELSE Some(found[1])

\* the first key of underloaded, in dict order, with a pharmacist available
RecipientIds(roster, st, day) ==
    SelectSeq(st.under_ids,
              LAMBDA p_id : underloaded_pharmacist(roster, p_id, day) # None)

\* a reassignment that leaves the recipient among the underloaded
Reassign_RecipientKept(st, day, i, pharmacist_id, p_id, recipient) ==
    [st EXCEPT
       !.wr.daily_rotas[day].dispensary_shifts[i].assigned_pharmacist = recipient,
       !.over = IF @[pharmacist_id] - 1 <= 3
                THEN Restrict(@, DOMAIN @ \ {pharmacist_id})
                ELSE [@ EXCEPT ![pharmacist_id] = @ - 1]]

\* a reassignment that also withdraws the day's lunch cover
Reassign_LunchCoverDropped(st, day, i, pharmacist_id, p_id, recipient) ==
    [st EXCEPT
       !.wr.daily_rotas[day].dispensary_shifts[i].assigned_pharmacist = recipient,
       !.wr.daily_rotas[day].lunch_cover = None,
       !.over = Restrict(@, DOMAIN @ \ {pharmacist_id}),
       !.under = Restrict(@, DOMAIN @ \ {p_id}),
       !.under_ids = SelectSeq(@, LAMBDA x : x # p_id)]

\* lines 362-372: the shift goes to recipient, whose id is p_id; the donor
\* leaves overloaded at 3 shifts, the recipient leaves underloaded at 2
Reassign(st, day, i, pharmacist_id, p_id, recipient) ==
    [wr |-> [st.wr EXCEPT
               !.daily_rotas[day].dispensary_shifts[i].assigned_pharmacist = recipient],
     over |-> IF st.over[pharmacist_id] - 1 <= 3
              THEN Restrict(st.over, DOMAIN st.over \ {pharmacist_id})
              ELSE [st.over EXCEPT ![pharmacist_id] = @ - 1],
     under |-> IF st.under[p_id] + 1 >= 2
               THEN Restrict(st.under, DOMAIN st.under \ {p_id})
               ELSE [st.under EXCEPT ![p_id] = @ + 1],
     under_ids |-> IF st.under[p_id] + 1 >= 2
                   THEN SelectSeq(st.under_ids, LAMBDA x : x # p_id)
                   ELSE st.under_ids]

\* lines 353-374 for a shift held by pharmacist_id
TryReassign(roster, st, day, i, pharmacist_id, recipients) ==
    IF pharmacist_id \notin DOMAIN st.over \/ recipients = <<>> THEN st
    ELSE Reassign(st, day, i, pharmacist_id, recipients[1],
                  underloaded_pharmacist(roster, recipients[1], day))

\* the body of the loop over the shifts of a day
BalanceShift(roster, st, day, holder) ==
    IF holder.h = None THEN st
    ELSE TryReassign(roster, st, day, holder.i, holder.h[1].id,
                     RecipientIds(roster, st, day))

RECURSIVE BalanceDay(_, _, _, _)
BalanceDay(roster, st, day, i) ==
    IF i > Len(st.wr.daily_rotas[day].dispensary_shifts) THEN st
    ELSE BalanceDay(roster,
                    BalanceShift(roster, st, day,
                                 [i |-> i, h |-> ShiftHolders(st.wr.daily_rotas[day])[i]]),
                    day, i + 1)

RECURSIVE BalanceDays(_, _, _)
BalanceDays(roster, st, days) ==
    IF days = <<>> \/ DOMAIN st.over = {} THEN st
    ELSE BalanceDays(roster, BalanceDay(roster, st, Head(days), 1), Tail(days))

\* the balancer taking everybody below 4 shifts for underloaded
Redistribute_UnderFour(roster, wr, counts, ids) ==
    IF {pid \in DOMAIN counts : counts[pid] > 3} = {}
       \/ {pid \in DOMAIN counts : counts[pid] < 4} = {}
    THEN wr
    ELSE BalanceDays(roster,
                     [wr |-> wr,
                      over |-> Restrict(counts, {pid \in DOMAIN counts : counts[pid] > 3}),
                      under |-> Restrict(counts, {pid \in DOMAIN counts : counts[pid] < 4}),
                      under_ids |-> SelectSeq(ids, LAMBDA pid : counts[pid] < 4)],
                     RotaDays(wr)).wr

\* lines 334-374, counts being shift_counts and ids its keys in dict order
Redistribute(roster, wr, counts, ids) ==
    IF {pid \in DOMAIN counts : counts[pid] > 3} = {}
       \/ {pid \in DOMAIN counts : counts[pid] < 2} = {}
    THEN wr
    ELSE BalanceDays(roster,
                     [wr |-> wr,
                      over |-> Restrict(counts, {pid \in DOMAIN counts : counts[pid] > 3}),
                      under |-> Restrict(counts, {pid \in DOMAIN counts : counts[pid] < 2}),
                      under_ids |-> SelectSeq(ids, LAMBDA pid : counts[pid] < 2)],
                     RotaDays(wr)).wr

\* _balance_dispensary_shifts: the week as the call leaves it
balance_dispensary_shifts(roster, wr) ==
    Redistribute(roster, wr, shift_counts(wr), KeyOrder(HolderIds(wr, RotaDays(wr))))

\* generate_weekly_rota, line 59 and the rest of the loop, r being what
\* _generate_daily_rota returned or raised for the first of days
RECURSIVE DayLoop(_, _, _, _, _)
StoreDay(roster, reqs, cls, wr, days, r) ==
    IF r.exc # "" THEN Raise(r.exc)
    ELSE DayLoop(roster, reqs, cls,
                 [wr EXCEPT !.daily_rotas[Head(days)] = r.val[1]], Tail(days))

\* the loop of generate_weekly_rota over Day
DayLoop(roster, reqs, cls, wr, days) ==
    IF days = <<>> THEN Return(wr)
    ELSE StoreDay(roster, reqs, cls, wr, days,
                  generate_daily_rota(roster, reqs, cls, Head(days),
                                      wr.daily_rotas[Head(days)].date))

\* lines 61-64, built being the week or the exception of the loop
BalanceAndReturn(roster, built) ==
    IF built.exc # "" THEN built
    ELSE Return(balance_dispensary_shifts(roster, built.val[1]))

\* generate_weekly_rota
generate_weekly_rota(roster, reqs, cls, start_date) ==
    BalanceAndReturn(roster,
                     DayLoop(roster, reqs, cls, WeeklyRotaPostInit(start_date), Day))

\* ------------------------------------------------------------------ inputs
Pharmacist(band, primary, itu, warfarin, dflt, prefs, avail) ==
    [band |-> band, primary_directorate |-> primary, itu_trained |-> itu,
     warfarin_trained |-> warfarin, default_pharmacist |-> dflt,
     preferences |-> prefs, availability |-> avail]

Pref(ward, rank) == [ward_area |-> ward, rank |-> rank]

NoDays == [d \in {} |-> TRUE]

\* The staff records a roster is drawn from: the four pharmacists of the
\* test fixtures, one who is never available, one with a partial
\* availability map, one who is away on Monday.
StaffChoices ==
    << Pharmacist("BAND7", "MEDICINE", TRUE, TRUE, FALSE, <<>>, NoDays),
       Pharmacist("BAND6", "SURGERY", FALSE, TRUE, FALSE, <<>>, NoDays),
       Pharmacist("BAND8", "ITU", TRUE, FALSE, FALSE, <<>>, NoDays),
       Pharmacist("BAND7", "CARE_OF_ELDERLY", FALSE, FALSE, TRUE, <<>>, NoDays),
       Pharmacist("BAND6", "EAU", FALSE, FALSE, FALSE, <<>>,
                  [d \in Days |-> FALSE]),
       Pharmacist("BAND7", "ITU", FALSE, FALSE, FALSE,
                  <<Pref("EAU", 2), Pref("MEDICINE", 1)>>,
                  [d \in {"MONDAY", "TUESDAY"} |-> TRUE]),
       Pharmacist("BAND8", "MEDICINE", FALSE, TRUE, TRUE, <<Pref("SURGERY", 1)>>,
                  [d \in Days |-> d # "MONDAY"]) >>

StaffIds == <<"p1", "p2", "p3", "p4", "p5", "p6">>

\* a roster: records with distinct ids, each built by Pharmacist(...)
MakeRoster(choice) ==
    [i \in 1..Len(choice) |->
       PharmacistPostInit([id |-> StaffIds[i]] @@ StaffChoices[choice[i]])]

Rosters ==
    {MakeRoster(c) : c \in UNION {[1..n -> 1..Len(StaffChoices)] : n \in 0..MaxStaff}}

CustomRequirements ==
    [k \in {"ITU", "EAU", "MEDICINE"} \X Days |->
       IF k[1] = "ITU" THEN Req(1, 1)
       ELSE IF k[1] = "EAU" THEN Req(2, 2) ELSE Req(1, 1)]

RequirementArgs == {None, Some(<<>>), Some(CustomRequirements)}

\* the clinics of the fixtures of test_scheduler.py, and two on one Monday
TestClinics ==
    << Clinic("PHAR2PSP", "TUESDAY", 780, 900), Clinic("PHARM1A", "MONDAY", 540, 780) >>

MondayClinics ==
    << Clinic("PHARM1A", "MONDAY", 540, 780), Clinic("PHAR2PSP", "MONDAY", 780, 900) >>

ClinicArgs == {None, Some(<<>>), Some(TestClinics), Some(MondayClinics)}

StartDates == 0..MaxStartDate

NoCall == [exc |-> "", val |-> <<>>]

NoArgs == [pool |-> <<>>, rota |-> <<>>]

\* RotaScheduler(pharmacists): both optional arguments omitted
NotGiven == [ward_requirements |-> None, clinics |-> None]

\* --------------------------------------------------------- state machine
\* RotaScheduler.__init__ on a roster, a requirement argument and a clinic
\* argument; nothing has been called yet.
Init ==
    /\ pharmacists \in Rosters
    /\ given \in [ward_requirements : RequirementArgs, clinics : ClinicArgs]
    /\ ward_requirements = OrDefault(given.ward_requirements,
                                     DEFAULT_WARD_REQUIREMENTS)
    /\ clinics = OrDefault(given.clinics, DEFAULT_CLINICS)
    /\ daily_rota = DailyRota("MONDAY", 0)
    /\ weekly_rota = WeeklyRotaPostInit(0)
    /\ call = "none"
    /\ before = NoArgs
    /\ outcome = NoCall
    /\ results = <<>>

\* the attributes of the RotaScheduler instance
Engine ==
    [pharmacists |-> pharmacists, ward_requirements |-> ward_requirements,
     clinics |-> clinics]

\* a run that uses up the roster it schedules
EngineAfterGenerate_RosterDrained(engine) ==
    [engine EXCEPT !.pharmacists = <<>>]

\* a run that removes from the roster the first pharmacist it schedules
EngineAfterGenerate_StaffConsumed(engine) ==
    [engine EXCEPT !.pharmacists = IF @ = <<>> THEN @ ELSE Tail(@)]

\* The instance after generate_weekly_rota: no attribute of self is assigned
\* and no list it holds is mutated (the lists filtered and consumed by the
\* phases are new lists built by comprehensions).
EngineAfterGenerate(engine) == engine

\* scheduler.generate_weekly_rota(start_date): a first run on any start
\* date, a second run on the same engine with the same start date.
GenerateWeeklyRota ==
    /\ Len(results) < MaxRuns
    /\ \E start_date \in StartDates :
         /\ results # <<>> => start_date = results[1].start_date
         /\ outcome' = generate_weekly_rota(pharmacists, ward_requirements,
                                            clinics, start_date)
         /\ results' = Append(results, [start_date |-> start_date,
                                        outcome |-> outcome'])
    /\ pharmacists' = EngineAfterGenerate(Engine).pharmacists
    /\ ward_requirements' = EngineAfterGenerate(Engine).ward_requirements
    /\ clinics' = EngineAfterGenerate(Engine).clinics
    /\ call' = "generate_weekly_rota"
    /\ UNCHANGED <<given, daily_rota, weekly_rota, before>>

\* main.generate_rota once the engine has run: an exception propagates, a
\* week is printed or exported and True is returned
AfterGenerate(r) == IF r.exc # "" THEN r ELSE Return("True")

\* main.generate_rota: the stored roster is loaded; an empty one is
\* refused, otherwise an engine with the default requirements and clinics
\* generates the week and the function returns True.
MainGenerateRota ==
    /\ call = "none"
    /\ \E start_date \in StartDates :
         outcome' = IF pharmacists = <<>> THEN Return("False")
                    ELSE AfterGenerate(
                           generate_weekly_rota(pharmacists, DEFAULT_WARD_REQUIREMENTS,
                                                DEFAULT_CLINICS, start_date))
    /\ call' = "main.generate_rota"
    /\ UNCHANGED <<pharmacists, ward_requirements, clinics, given, daily_rota,
                   weekly_rota, before, results>>

Next == GenerateWeeklyRota \/ MainGenerateRota

Spec == Init /\ [][Next]_vars

\* ------------------------------------------- the phase methods on their own
\* _generate_daily_rota, lines 77-89, for one day: the available staff are
\* selected and _assign_clinics is called on the new DailyRota.
AssignClinics ==
    /\ call = "none"
    /\ \E day \in Days :
         /\ before' = [pool |-> available_on(pharmacists, day),
                       rota |-> DailyRota(day, 0)]
         /\ daily_rota' = assign_clinics(DailyRota(day, 0),
                                         SelectSeq(clinics, LAMBDA c : c.day = day),
                                         available_on(pharmacists, day))
    /\ call' = "_assign_clinics"
    /\ UNCHANGED <<pharmacists, ward_requirements, clinics, given, weekly_rota,
                   outcome, results>>

NextClinics == AssignClinics

SpecClinics == Init /\ [][NextClinics]_vars

\* _assign_ward_areas(DailyRota(day), the staff available that day, set())
AssignWardAreas ==
    /\ call = "none"
    /\ \E day \in Days :
         /\ before' = [pool |-> available_on(pharmacists, day),
                       rota |-> DailyRota(day, 0)]
         /\ daily_rota' = assign_ward_areas(ward_requirements, DailyRota(day, 0),
                                            available_on(pharmacists, day)).dr
    /\ call' = "_assign_ward_areas"
    /\ UNCHANGED <<pharmacists, ward_requirements, clinics, given, weekly_rota,
                   outcome, results>>

NextWard == AssignWardAreas

SpecWard == Init /\ [][NextWard]_vars

\* The staff records of the rosters handed to _assign_ward_areas with stated
\* preferences: ITU trained with a home ward, ITU trained at home on ITU,
\* untrained at home on ITU with two preferences, and three whose home ward
\* CARE_OF_ELDERLY or SURGERY may have no requirement, with EAU ranked 1,
\* ranked 2 and not ranked.
FillStaff ==
    << StaffChoices[1], StaffChoices[3], StaffChoices[6],
       Pharmacist("BAND6", "CARE_OF_ELDERLY", FALSE, FALSE, FALSE,
                  <<Pref("EAU", 1), Pref("SURGERY", 2)>>, NoDays),
       Pharmacist("BAND6", "SURGERY", FALSE, FALSE, FALSE,
                  <<Pref("SURGERY", 1), Pref("EAU", 2)>>, NoDays),
       StaffChoices[4] >>

FillRosters ==
    {[i \in 1..Len(c) |-> PharmacistPostInit([id |-> StaffIds[i]] @@ FillStaff[c[i]])] :
       c \in UNION {[1..n -> 1..Len(FillStaff)] : n \in 0..MaxFillStaff}}

\* a table without ITU, CARE_OF_ELDERLY and MEDICINE, and without Friday
SparseRequirements ==
    [k \in {"EAU", "SURGERY"} \X (Days \ {"FRIDAY"}) |->
       IF k[1] = "EAU" THEN Req(1, 2) ELSE Req(0, 1)]

\* an engine on the default table or on a supplied one, the default clinics
InitFill ==
    /\ pharmacists \in FillRosters
    /\ given \in [ward_requirements : {None, Some(CustomRequirements),
                                       Some(SparseRequirements)},
                  clinics : {None}]
    /\ ward_requirements = OrDefault(given.ward_requirements,
                                     DEFAULT_WARD_REQUIREMENTS)
    /\ clinics = DEFAULT_CLINICS
    /\ daily_rota = DailyRota("MONDAY", 0)
    /\ weekly_rota = WeeklyRotaPostInit(0)
    /\ call = "none"
    /\ before = NoArgs
    /\ outcome = NoCall
    /\ results = <<>>

SpecFill == InitFill /\ [][NextWard]_vars

\* ------------------------------------------- the balancer on its own
\* The staff records of the weeks handed to the balancer: warfarin trained
\* and always available, always available, available on Monday and Tuesday
\* only, warfarin trained and away on Monday.
BalanceChoice == {2, 4, 6, 7}

BalanceRosters ==
    {MakeRoster(c) : c \in UNION {[1..n -> BalanceChoice] : n \in 0..MaxBalanceStaff}}

\* an entry of a holder pattern: 0 is an unassigned shift
Holder(roster, k) == IF k = 0 THEN None ELSE Some(roster[k])

\* The holders of the 4 slots of a day: on Monday and Wednesday the first slot
\* and the other three are given by the pattern, the other days are unassigned.
HoldersOf(roster, pat, day) ==
    IF day = "MONDAY"
    THEN <<Holder(roster, pat[1]), Holder(roster, pat[2]),
           Holder(roster, pat[2]), Holder(roster, pat[2])>>
    ELSE IF day = "WEDNESDAY"
    THEN <<Holder(roster, pat[3]), Holder(roster, pat[4]),
           Holder(roster, pat[4]), Holder(roster, pat[4])>>
    ELSE <<None, None, None, None>>

\* the pharmacist of _get_dispensary_pharmacist for these holders
SoleHolder(holders) ==
    LET assigned == SelectSeq(holders, LAMBDA h : h # None)
    IN IF assigned # <<>> /\ \A i \in 1..Len(assigned) : assigned[i] = assigned[1]
       THEN assigned[1]
       ELSE None

WithShifts(dr, holders) ==
    [dr EXCEPT !.dispensary_shifts =
       [i \in 1..Len(DISPENSARY_SLOTS) |->
          DispensaryShift(dr.day, DISPENSARY_SLOTS[i], holders[i])]]

\* A DailyRota laid out as _generate_daily_rota lays it out (clinics, then
\* the dispensary, then lunch cover, then the wards), the dispensary shifts
\* being held as given.
HandBuiltDay(roster, reqs, cls, day, date, holders) ==
    WardPhase(reqs,
              LunchPhase(WithShifts(assign_clinics(DailyRota(day, date),
                                                   SelectSeq(cls, LAMBDA c : c.day = day),
                                                   available_on(roster, day)),
                                    holders),
                         SoleHolder(holders), available_on(roster, day)),
              available_on(roster, day)).val[1]

\* the holders of a day are available that day and hold no clinic
ValidHolders(roster, cls, day, holders) ==
    \A i \in 1..Len(holders) :
      holders[i] # None =>
        /\ AvailableOn(holders[i][1], day)
        /\ holders[i][1] \notin
             Range(ClinicPharmacists(
                     assign_clinics(DailyRota(day, 0),
                                    SelectSeq(cls, LAMBDA c : c.day = day),
                                    available_on(roster, day))))

HandBuiltWeek(roster, reqs, cls, pat) ==
    [start_date |-> 0,
     daily_rotas |-> [d \in Days |->
                        HandBuiltDay(roster, reqs, cls, d, DayIndex(d) - 1,
                                     HoldersOf(roster, pat, d))]]

Patterns(roster) ==
    {pat \in [1..4 -> 0..Len(roster)] :
       \A d \in Days : ValidHolders(roster, DEFAULT_CLINICS, d, HoldersOf(roster, pat, d))}

\* an engine on the default requirements and clinics, and a week to balance
InitBalance ==
    /\ pharmacists \in BalanceRosters
    /\ given = NotGiven
    /\ ward_requirements = DEFAULT_WARD_REQUIREMENTS
    /\ clinics = DEFAULT_CLINICS
    /\ \E pat \in Patterns(pharmacists) :
         weekly_rota = HandBuiltWeek(pharmacists, DEFAULT_WARD_REQUIREMENTS,
                                     DEFAULT_CLINICS, pat)
    /\ daily_rota = DailyRota("MONDAY", 0)
    /\ call = "none"
    /\ before = NoArgs
    /\ outcome = NoCall
    /\ results = <<>>

\* scheduler._balance_dispensary_shifts(weekly_rota)
BalanceDispensaryShifts ==
    /\ call = "none"
    /\ before' = [pool |-> <<>>, rota |-> weekly_rota]
    /\ weekly_rota' = balance_dispensary_shifts(pharmacists, weekly_rota)
    /\ call' = "_balance_dispensary_shifts"
    /\ UNCHANGED <<pharmacists, ward_requirements, clinics, given, daily_rota,
                   outcome, results>>

NextBalance == BalanceDispensaryShifts

SpecBalance == InitBalance /\ [][NextBalance]_vars

\* ------------------------------------- _assign_dispensary_shifts on its own
\* the arguments _generate_daily_rota hands to _assign_dispensary_shifts
\* (lines 88-96): the rota after the clinic phase and the available
\* pharmacists who hold no clinic
DispensaryArgs(dr, available) ==
    [rota |-> dr,
     pool |-> SelectSeq(available,
                        LAMBDA p : p \notin Range(ClinicPharmacists(dr)))]

\* the call on these arguments: the rota as the call leaves it, and what it
\* returned or raised
DispensaryCall(args) ==
    [before |-> args, r |-> assign_dispensary_shifts(args.rota, args.pool)]

\* scheduler._assign_dispensary_shifts(daily_rota, remaining_pharmacists)
AssignDispensaryShifts ==
    /\ call = "none"
    /\ \E day \in Days :
         LET c == DispensaryCall(
                    DispensaryArgs(
                      assign_clinics(DailyRota(day, 0),
                                     SelectSeq(clinics, LAMBDA x : x.day = day),
                                     available_on(pharmacists, day)),
                      available_on(pharmacists, day)))
         IN /\ before' = c.before
            /\ daily_rota' = c.r.dr
            /\ outcome' = [exc |-> c.r.exc, val |-> <<>>]
    /\ call' = "_assign_dispensary_shifts"
    /\ UNCHANGED <<pharmacists, ward_requirements, clinics, given, weekly_rota,
                   results>>

NextDispensary == AssignDispensaryShifts

SpecDispensary == Init /\ [][NextDispensary]_vars

\* ------------------------------------------ _generate_daily_rota on its own
\* the rosters made of pharmacists of the test fixture, each at most once,
\* in any order; the fixture itself is MakeRoster(<<1, 2, 3, 4>>)
FixtureRosters ==
    {MakeRoster(c) :
       c \in {f \in UNION {[1..n -> 1..4] : n \in 0..4} :
               \A i, j \in DOMAIN f : f[i] = f[j] => i = j}}

InitDaily ==
    /\ pharmacists \in FixtureRosters
    /\ given \in [ward_requirements : RequirementArgs, clinics : ClinicArgs]
    /\ ward_requirements = OrDefault(given.ward_requirements,
                                     DEFAULT_WARD_REQUIREMENTS)
    /\ clinics = OrDefault(given.clinics, DEFAULT_CLINICS)
    /\ daily_rota = DailyRota("MONDAY", 0)
    /\ weekly_rota = WeeklyRotaPostInit(0)
    /\ call = "none"
    /\ before = NoArgs
    /\ outcome = NoCall
    /\ results = <<>>

\* scheduler._generate_daily_rota(day, date)
GenerateDailyRota ==
    /\ call = "none"
    /\ \E day \in Days :
         /\ before' = [pool |-> available_on(pharmacists, day),
                       rota |-> DailyRota(day, 0)]
         /\ outcome' = generate_daily_rota(pharmacists, ward_requirements,
                                           clinics, day, 0)
    /\ call' = "_generate_daily_rota"
    /\ UNCHANGED <<pharmacists, ward_requirements, clinics, given, daily_rota,
                   weekly_rota, results>>

NextDaily == GenerateDailyRota

SpecDaily == InitDaily /\ [][NextDaily]_vars

\* ------------------------------- Clinic.conflicting_dispensary_slots alone
\* clock times on a half-hour grid from 08:00, travel times in half hours
TimeGrid == {480 + 30 * k : k \in 0..MaxTimeSteps}

TravelGrid == {30 * k : k \in 0..MaxTravelSteps}

\* Clinic(...) with any start, end and travel times; the dataclass does not
\* validate them, so the end may precede the start
ClinicWindows ==
    {[Clinic("PHAR2PSP", "TUESDAY", w[1], w[2])
        EXCEPT !.travel_time_before = w[3], !.travel_time_after = w[4]] :
       w \in TimeGrid \X TimeGrid \X TravelGrid \X TravelGrid}

\* an engine without staff whose clinic list holds the one clinic
InitConflict ==
    /\ pharmacists = <<>>
    /\ \E c \in ClinicWindows :
         /\ given = [ward_requirements |-> None, clinics |-> Some(<<c>>)]
         /\ clinics = <<c>>
    /\ ward_requirements = DEFAULT_WARD_REQUIREMENTS
    /\ daily_rota = DailyRota("MONDAY", 0)
    /\ weekly_rota = WeeklyRotaPostInit(0)
    /\ call = "none"
    /\ before = NoArgs
    /\ outcome = NoCall
    /\ results = <<>>

\* clinic.conflicting_dispensary_slots
ConflictingDispensarySlots ==
    /\ call = "none"
    /\ outcome' = Return(conflicting_dispensary_slots(clinics[1]))
    /\ call' = "conflicting_dispensary_slots"
    /\ UNCHANGED <<pharmacists, ward_requirements, clinics, given, daily_rota,
                   weekly_rota, before, results>>

NextConflict == ConflictingDispensarySlots

SpecConflict == InitConflict /\ [][NextConflict]_vars

\* ------------------------------------------------------------ properties
\* the run of generate_weekly_rota made last returned a WeeklyRota
Returned == call = "generate_weekly_rota" /\ outcome.exc = ""

ReturnedRota == outcome.val[1]

\* C1: every weekday of every generated week holds exactly 4 DispensaryShift
\* records, a weekday on which no staff member is available included.
C1_FourShiftRecordsEveryDay ==
    Returned =>
      \A d \in Days :
        Len(ReturnedRota.daily_rotas[d].dispensary_shifts) = Len(DISPENSARY_SLOTS)

\* C2: every WardAssignment to ITU made by _assign_ward_areas (ITU pass,
\* home-ward pass, fill pass) belongs to a pharmacist whose itu_trained flag
\* is true.
C2_ItuOnlyTrained ==
    call = "_assign_ward_areas" =>
      \A i \in 1..Len(daily_rota.ward_assignments) :
        daily_rota.ward_assignments[i].ward_area = "ITU"
          => daily_rota.ward_assignments[i].pharmacist.itu_trained

\* the only available, dispensary-eligible designated pharmacist of the day
OnlyDesignated(p, day) ==
    LET flagged == SelectSeq(available_on(pharmacists, day),
                             LAMBDA q : q.default_pharmacist /\ can_cover_dispensary(q))
    IN flagged = <<p>>

HoldsAllSlots(dr, p) ==
    /\ Len(dr.dispensary_shifts) = Len(DISPENSARY_SLOTS)
    /\ \A i \in 1..Len(dr.dispensary_shifts) :
         dr.dispensary_shifts[i].assigned_pharmacist = Some(p)

\* C3: a call of generate_weekly_rota on a roster in which, on some day,
\* exactly one designated dispensary pharmacist is available and eligible
\* yields a rota in which that pharmacist holds all 4 slots of that day.
C3_DesignatedHoldsAllSlots ==
    call = "generate_weekly_rota" =>
      \A d \in Days : \A p \in Range(pharmacists) :
        OnlyDesignated(p, d)
          => outcome.exc = "" /\ HoldsAllSlots(ReturnedRota.daily_rotas[d], p)

\* C7: no pharmacist holds two ClinicAssignment records of a day.
C7_OneClinicPerPharmacist ==
    call = "_assign_clinics" =>
      \A i, j \in 1..Len(daily_rota.clinic_assignments) :
        daily_rota.clinic_assignments[i].pharmacist
          = daily_rota.clinic_assignments[j].pharmacist => i = j

\* more clinics than qualified staff: two clinics on the day, one assigned
C7_Witness ==
    /\ call = "_assign_clinics"
    /\ Len(SelectSeq(clinics, LAMBDA c : c.day = daily_rota.day)) = 2
    /\ Len(daily_rota.clinic_assignments) = 1
    /\ Len(SelectSeq(before.pool, LAMBDA p : p.warfarin_trained)) = 1

\* C8: the returned WeeklyRota has exactly the 5 entries Monday..Friday, the
\* i-th with day = that weekday and date = start date + i, and start_date is
\* the start date given.
C8_FiveContiguousDays ==
    Returned =>
      /\ ReturnedRota.start_date = results[Len(results)].start_date
      /\ DOMAIN ReturnedRota.daily_rotas = Days
      /\ \A i \in 1..Len(Day) :
           /\ ReturnedRota.daily_rotas[Day[i]].day = Day[i]
           /\ ReturnedRota.daily_rotas[Day[i]].date
                = results[Len(results)].start_date + (i - 1)

C8_Witness ==
    /\ Returned
    /\ pharmacists # <<>>
    /\ results[Len(results)].start_date = MaxStartDate

\* C9: a generation call made with an empty roster is rejected: the engine
\* call raises, the CLI call returns False, and no WeeklyRota is produced.
C9_EmptyRosterRejected ==
    pharmacists = <<>> =>
      /\ call = "generate_weekly_rota" => outcome.exc # ""
      /\ call = "main.generate_rota" => outcome = Return("False")

Balanced == call = "_balance_dispensary_shifts"

\* the number of dispensary shifts of the week held by the pharmacist
WeeklyShifts(wr, p) ==
    Cardinality({<<d, i>> \in Days \X (1..Len(DISPENSARY_SLOTS)) :
                   i <= Len(wr.daily_rotas[d].dispensary_shifts)
                   /\ wr.daily_rotas[d].dispensary_shifts[i].assigned_pharmacist = Some(p)})

HoldsShiftOn(dr, p) == Some(p) \in Range(ShiftHolders(dr))

\* C4: after the balancer, a pharmacist who still holds more than 3
\* dispensary shifts in the week holds none on a weekday on which a
\* pharmacist with fewer than 2 weekly shifts is available.
C4_OverloadOnlyWithoutTarget ==
    Balanced =>
      \A p \in Range(pharmacists) :
        WeeklyShifts(weekly_rota, p) > 3 =>
          \A d \in Days :
            HoldsShiftOn(weekly_rota.daily_rotas[d], p) =>
              ~ \E q \in Range(pharmacists) :
                  WeeklyShifts(weekly_rota, q) < 2 /\ AvailableOn(q, d)

\* the pharmacists named by each duty type of a day
ClinicStaff(dr) == Range(ClinicPharmacists(dr))

DispensaryStaff(dr) == {h[1] : h \in Range(AssignedDispensary(dr))}

LunchStaff(dr) == {dr.lunch_cover[i].pharmacist : i \in 1..Len(dr.lunch_cover)}

WardStaff(dr) ==
    {dr.ward_assignments[i].pharmacist : i \in 1..Len(dr.ward_assignments)}

Exclusive(dr) ==
    /\ ClinicStaff(dr) \cap DispensaryStaff(dr) = {}
    /\ ClinicStaff(dr) \cap LunchStaff(dr) = {}
    /\ ClinicStaff(dr) \cap WardStaff(dr) = {}
    /\ DispensaryStaff(dr) \cap LunchStaff(dr) = {}
    /\ DispensaryStaff(dr) \cap WardStaff(dr) = {}
    /\ LunchStaff(dr) \cap WardStaff(dr) = {}
    /\ \A i, j \in 1..Len(dr.ward_assignments) :
         dr.ward_assignments[i].pharmacist = dr.ward_assignments[j].pharmacist
           => i = j

Named(dr) ==
    ClinicStaff(dr) \cup DispensaryStaff(dr) \cup LunchStaff(dr) \cup WardStaff(dr)

\* C6: everybody named in a clinic assignment, dispensary shift, lunch cover
\* or ward assignment of a weekday is available on that weekday, a weekday
\* missing from the availability map counting as unavailable; so it is for
\* the shifts the balancer reassigned.
C6_NamedStaffAvailable ==
    Balanced =>
      \A d \in Days :
        \A p \in Named(weekly_rota.daily_rotas[d]) :
          d \in DOMAIN p.availability /\ p.availability[d]

\* the balancer moved a shift on a day, and kept one of a day on which the
\* pharmacist short of shifts is away
C6_Witness ==
    /\ Balanced
    /\ \E d \in Days : weekly_rota.daily_rotas[d] # before.rota.daily_rotas[d]
    /\ \E d \in Days, p, q \in Range(pharmacists) :
         /\ WeeklyShifts(before.rota, p) > 3
         /\ HoldsShiftOn(before.rota.daily_rotas[d], p)
         /\ WeeklyShifts(before.rota, q) = 1
         /\ ~AvailableOn(q, d)
         /\ weekly_rota.daily_rotas[d] = before.rota.daily_rotas[d]

HandBuiltWeeksWellFormed ==
    call = "none" =>
      \A d \in Days :
        /\ Exclusive(weekly_rota.daily_rotas[d])
        /\ \A p \in Named(weekly_rota.daily_rotas[d]) : AvailableOn(p, d)

C13_RunsToCompletion ==
    call = "generate_weekly_rota" /\ pharmacists # <<>> => outcome.exc = ""

\* the half-open intervals [a1, a2) and [b1, b2) share a minute
Intersects(a1, a2, b1, b2) == \E t \in a1..(a2 - 1) : b1 <= t /\ t < b2

\* the slot is in the computed set iff it meets the clinic's window
\* [start - travel before, end + travel after)
SlotConflictIsIntersection(c, conflicts) ==
    \A s \in Range(DISPENSARY_SLOTS) :
      s \in conflicts
        <=> Intersects(SlotTimes[s][1], SlotTimes[s][2],
                       c.start_time - c.travel_time_before,
                       c.end_time + c.travel_time_after)

\* the clinic of the test: 13:00-15:00 with 30 minutes of travel either side
AfternoonClinic == Clinic("PHAR2PSP", "TUESDAY", 780, 900)

\* C12 as stated: for every clinic, a slot conflicts iff the half-open slot
\* interval intersects the half-open clinic window.
C12_ConflictIffIntersects_AnyClinic ==
    call = "conflicting_dispensary_slots" =>
      SlotConflictIsIntersection(clinics[1], outcome.val[1])

\* C12, amended: for every clinic whose window is not empty (start - travel
\* before < end + travel after), a slot conflicts iff the half-open slot
\* interval intersects the half-open clinic window, touching endpoints not
\* conflicting; the 13:00-15:00 clinic with 30-minute buffers conflicts with
\* exactly the 11-13, 13-15 and 15-17 slots.
C12_ConflictIffIntersects ==
    call = "conflicting_dispensary_slots" =>
      /\ clinics[1].start_time - clinics[1].travel_time_before
           < clinics[1].end_time + clinics[1].travel_time_after
         => SlotConflictIsIntersection(clinics[1], outcome.val[1])
      /\ clinics[1] = AfternoonClinic
         => outcome.val[1] = {"SLOT_11_1", "SLOT_1_3", "SLOT_3_5"}

\* the set was computed for a clinic whose window ends where a slot starts
C12_Witness ==
    /\ call = "conflicting_dispensary_slots"
    /\ clinics[1].start_time - clinics[1].travel_time_before = 540
    /\ clinics[1].end_time + clinics[1].travel_time_after = 780
    /\ clinics[1].travel_time_before = 30
    /\ outcome.val[1] = {"SLOT_9_11", "SLOT_11_1"}

\* the number of ward assignments of the rota to the ward
WardCount(dr, ward) ==
    Cardinality({i \in 1..Len(dr.ward_assignments) :
                   dr.ward_assignments[i].ward_area = ward})

\* C14: for the roster of the test fixture, all available, with one Monday
\* clinic and the default requirements (MEDICINE Monday minimum 4), the Monday
\* rota is produced without failure and holds fewer than 4 MEDICINE ward
\* assignments.
C14_MondayMedicineUnderstaffed ==
    /\ call = "_generate_daily_rota"
    /\ before.rota.day = "MONDAY"
    /\ pharmacists = MakeRoster(<<1, 2, 3, 4>>)
    /\ clinics = TestClinics
    /\ ward_requirements = DEFAULT_WARD_REQUIREMENTS
    => /\ outcome.exc = ""
       /\ WardCount(outcome.val[1], "MEDICINE") < 4

\* C15: the engine works on exactly the requirement table and the clinic list
\* it was constructed with, the defaults standing in only for an omitted
\* argument; with a supplied empty clinic list no clinic is assigned.
C15_SuppliedArgumentsUsed ==
    call = "_assign_clinics" =>
      /\ given.ward_requirements # None
           => ward_requirements = given.ward_requirements[1]
      /\ given.clinics # None => clinics = given.clinics[1]
      /\ given.clinics = Some(<<>>) => daily_rota.clinic_assignments = <<>>

\* what the clinic phase of the call of _generate_daily_rota assigned
ClinicPhase ==
    assign_clinics(before.rota,
                   SelectSeq(clinics, LAMBDA c : c.day = before.rota.day),
                   before.pool).clinic_assignments

\* the assignment's pharmacist is the one dispensary-eligible pharmacist
\* available that day, and is not the designated dispensary pharmacist
OnlyCandidate(a) ==
    /\ SelectSeq(before.pool, can_cover_dispensary) = <<a.pharmacist>>
    /\ ~a.pharmacist.default_pharmacist

\* C16: a clinic-assigned, dispensary-eligible pharmacist stays a candidate
\* for every slot outside the clinic's conflict set: where nobody else is
\* eligible, the daily rota gives that pharmacist each of those slots, next
\* to the clinic assignment.
C16_ClinicStaffKeepFreeSlots ==
    call = "_generate_daily_rota" =>
      \A k \in 1..Len(ClinicPhase) :
        OnlyCandidate(ClinicPhase[k]) =>
          /\ outcome.exc = ""
          /\ \A i \in 1..Len(DISPENSARY_SLOTS) :
               DISPENSARY_SLOTS[i]
                   \notin conflicting_dispensary_slots(ClinicPhase[k].clinic)
                 => outcome.val[1].dispensary_shifts[i].assigned_pharmacist
                      = Some(ClinicPhase[k].pharmacist)

\* a pharmacist holds a dispensary slot of the conflict set of a clinic held
\* the same day
ConflictPair(dr) ==
    \E k \in 1..Len(dr.clinic_assignments), i \in 1..Len(dr.dispensary_shifts) :
      /\ dr.dispensary_shifts[i].assigned_pharmacist
           = Some(dr.clinic_assignments[k].pharmacist)
      /\ dr.dispensary_shifts[i].slot
           \in conflicting_dispensary_slots(dr.clinic_assignments[k].clinic)

\* the shift of the day changed hands in the balancer
Moved(d, i) ==
    weekly_rota.daily_rotas[d].dispensary_shifts[i].assigned_pharmacist
      # before.rota.daily_rotas[d].dispensary_shifts[i].assigned_pharmacist

C18_ZeroShiftStaffUnderloaded ==
    Balanced /\ weekly_rota = before.rota =>
      ~ \E p, q \in Range(pharmacists), d \in Days :
          /\ WeeklyShifts(before.rota, p) > 3
          /\ HoldsShiftOn(before.rota.daily_rotas[d], p)
          /\ WeeklyShifts(before.rota, q) < 2
          /\ AvailableOn(q, d)

DispensaryDone == call = "_assign_dispensary_shifts" /\ outcome.exc = ""

\* C19: with two or more designated pharmacists in the day's eligible pool
\* the all-four-slots case does not apply: the per-slot logic runs and the
\* slots are spread over the pool.
C19_TwoDesignatedSpreadSlots ==
    call = "_assign_dispensary_shifts"
    /\ Len(dedicated_dispensary(before.pool)) >= 2
    => /\ outcome.exc = ""
       /\ Cardinality(DispensaryStaff(daily_rota)) >= 2

\* C20: when the pool handed to _assign_dispensary_shifts holds a Band 6 or
\* Band 7 pharmacist, every assigned slot is held by one; a Band 8
\* pharmacist holds a slot only when the pool holds no Band 6/7 pharmacist.
C20_Band8OnlyAsFallback ==
    DispensaryDone =>
      \A p \in DispensaryStaff(daily_rota) :
        p.band = "BAND8"
          => \A q \in Range(before.pool) : q.band \notin {"BAND6", "BAND7"}

\* a designated Band 8 pharmacist heads a pool with a Band 7 pharmacist in
\* it, and the four slots are held
C20_Witness ==
    /\ DispensaryDone
    /\ before.pool # <<>>
    /\ before.pool[1].band = "BAND8"
    /\ before.pool[1].default_pharmacist
    /\ \E q \in Range(before.pool) : q.band = "BAND7"
    /\ Len(AssignedDispensary(daily_rota)) = Len(DISPENSARY_SLOTS)

\* the pool members the clinic assignments of the rota leave free for the slot
FreeForSlot(pool, dr, slot) ==
    SelectSeq(pool,
              LAMBDA p : \A k \in 1..Len(dr.clinic_assignments) :
                           dr.clinic_assignments[k].pharmacist = p
                             => slot \notin conflicting_dispensary_slots(
                                              dr.clinic_assignments[k].clinic))

\* the holder the slot gets, given the shifts recorded before it: the first
\* free pool member holding no shift yet, else the first free pool member
SpreadHolder(free, earlier) ==
    LET fresh == SelectSeq(free, LAMBDA p : Some(p) \notin earlier)
    IN IF fresh # <<>> THEN Some(fresh[1])
       ELSE IF free # <<>> THEN Some(free[1]) ELSE None

\* C21: without a designated pharmacist in the pool, the call records the
\* slots in the order 9-11, 11-13, 13-15, 15-17; each slot goes to the first
\* eligible, non-conflicted pool member without a shift that day, and to the
\* first non-conflicted member who already holds one only when all of them do.
C21_PerSlotSpreadsFirst ==
    call = "_assign_dispensary_shifts"
    /\ before.pool # <<>>
    /\ dedicated_dispensary(before.pool) = <<>>
    => /\ outcome.exc = ""
       /\ Len(daily_rota.dispensary_shifts) = Len(DISPENSARY_SLOTS)
       /\ \A i \in 1..Len(DISPENSARY_SLOTS) :
            /\ daily_rota.dispensary_shifts[i].slot = DISPENSARY_SLOTS[i]
            /\ daily_rota.dispensary_shifts[i].assigned_pharmacist
                 = SpreadHolder(
                     FreeForSlot(dispensary_pool(before.pool), before.rota,
                                 DISPENSARY_SLOTS[i]),
                     {daily_rota.dispensary_shifts[j].assigned_pharmacist :
                        j \in 1..(i - 1)})

\* the available pharmacists who hold no clinic and no dispensary shift
LunchCandidates(dr, available) ==
    SelectSeq(available,
              LAMBDA p : p \notin ClinicStaff(dr) /\ p \notin DispensaryStaff(dr))

\* C22: _generate_daily_rota builds the day's rota, and the rota records a
\* lunch cover exactly when one pharmacist holds all four dispensary slots
\* and an available pharmacist is neither clinic-assigned nor that holder;
\* the cover is the first such pharmacist in roster order, from 12:30 to
\* 13:15.
C22_LunchCoverIffSoleHolder ==
    call = "_generate_daily_rota" =>
      /\ outcome.exc = ""
      /\ outcome.val[1].lunch_cover # None
           <=> /\ Cardinality(DispensaryStaff(outcome.val[1])) = 1
               /\ Len(AssignedDispensary(outcome.val[1])) = Len(DISPENSARY_SLOTS)
               /\ LunchCandidates(outcome.val[1], before.pool) # <<>>
      /\ outcome.val[1].lunch_cover # None
           => /\ outcome.val[1].lunch_cover[1].pharmacist
                   = LunchCandidates(outcome.val[1], before.pool)[1]
              /\ outcome.val[1].lunch_cover[1].start_time = 750
              /\ outcome.val[1].lunch_cover[1].end_time = 795

\* C23: _assign_clinics takes the day's clinics with PHAR2PSP first and the
\* others in input order, and gives each to the first available pharmacist,
\* in roster order, who is warfarin trained and holds no clinic yet; a clinic
\* stays without assignment only when every such pharmacist holds one, and
\* nobody untrained holds a clinic.
C23_ClinicsFirstFit ==
    call = "_assign_clinics" =>
      LET todays == SelectSeq(clinics, LAMBDA c : c.day = before.rota.day)
          ordered == SelectSeq(todays, LAMBDA c : c.clinic_type = "PHAR2PSP")
                       \o SelectSeq(todays, LAMBDA c : c.clinic_type # "PHAR2PSP")
          assigned == daily_rota.clinic_assignments
      IN /\ Len(assigned) <= Len(ordered)
         /\ \A k \in 1..Len(assigned) :
              LET free == SelectSeq(before.pool,
                                    LAMBDA p : /\ p.warfarin_trained
                                               /\ \A j \in 1..(k - 1) :
                                                    assigned[j].pharmacist # p)
              IN /\ assigned[k].clinic = ordered[k]
                 /\ free # <<>>
                 /\ assigned[k].pharmacist = free[1]
                 /\ assigned[k].pharmacist.warfarin_trained
         /\ Len(assigned) < Len(ordered) =>
              \A p \in Range(before.pool) :
                p.warfarin_trained => p \in ClinicStaff(daily_rota)

\* a Monday with PHARM1A ahead of PHAR2PSP in the clinic list and one trained
\* pharmacist behind an untrained one: PHAR2PSP is assigned, PHARM1A is not
C23_Witness ==
    /\ call = "_assign_clinics"
    /\ before.rota.day = "MONDAY"
    /\ clinics = MondayClinics
    /\ Len(before.pool) = 2
    /\ ~before.pool[1].warfarin_trained
    /\ before.pool[2].warfarin_trained
    /\ Len(daily_rota.clinic_assignments) = 1
    /\ daily_rota.clinic_assignments[1].clinic.clinic_type = "PHAR2PSP"
    /\ daily_rota.clinic_assignments[1].pharmacist = before.pool[2]

WardsDone == call = "_assign_ward_areas"

\* the pharmacists handed to _assign_ward_areas whom it left without a ward
Idle == SelectSeq(before.pool, LAMBDA p : p \notin WardStaff(daily_rota))

\* C24: when _assign_ward_areas is done, a ward other than ITU with a
\* requirement for the day holds at least its minimum, or nobody of the pool
\* is left without a ward.
C24_BelowMinimumOnlyWithEmptyPool ==
    WardsDone =>
      \A w \in Wards \ {"ITU"} :
        /\ <<w, daily_rota.day>> \in DOMAIN ward_requirements
        /\ WardCount(daily_rota, w)
             < ward_requirements[<<w, daily_rota.day>>].min_pharmacists
        => Idle = <<>>

\* three pharmacists were handed over, EAU asks for two and got one, and
\* everybody holds a ward
C24_Witness ==
    /\ WardsDone
    /\ Len(before.pool) = 3
    /\ <<"EAU", daily_rota.day>> \in DOMAIN ward_requirements
    /\ ward_requirements[<<"EAU", daily_rota.day>>].min_pharmacists = 2
    /\ WardCount(daily_rota, "EAU") = 1
    /\ Idle = <<>>

\* the ranks the pharmacist states for the ward
Ranks(p, w) ==
    {p.preferences[i].rank :
       i \in {j \in 1..Len(p.preferences) : p.preferences[j].ward_area = w}}

\* The k-th ward assignment was made by the fill pass: the ITU pass assigns
\* to ITU and the home-ward pass to the primary directorate, and the fill
\* pass never reaches a pharmacist's own ward, which the home-ward pass has
\* filled to its ideal count.
FillPick(k) ==
    /\ daily_rota.ward_assignments[k].ward_area # "ITU"
    /\ daily_rota.ward_assignments[k].ward_area
         # daily_rota.ward_assignments[k].pharmacist.primary_directorate

\* C25: each pick of the fill pass takes, among the pharmacists still
\* unassigned, the one stating the lowest rank for the ward, the earliest of
\* the pool among equals, and the head of the pool when nobody states a
\* rank for the ward; the wards are filled in the order EAU, SURGERY,
\* CARE_OF_ELDERLY, MEDICINE.
C25_FillPicksLowestRank ==
    WardsDone =>
      \A k \in 1..Len(daily_rota.ward_assignments) :
        FillPick(k) =>
          LET w == daily_rota.ward_assignments[k].ward_area
              remaining ==
                SelectSeq(before.pool,
                          LAMBDA p : \A j \in 1..(k - 1) :
                                       daily_rota.ward_assignments[j].pharmacist # p)
              stated == SelectSeq(remaining, LAMBDA p : Ranks(p, w) # {})
              lowest ==
                SelectSeq(stated,
                          LAMBDA p : \E r \in Ranks(p, w) :
                                       \A q \in Range(stated) :
                                         \A s \in Ranks(q, w) : r <= s)
          IN /\ daily_rota.ward_assignments[k].pharmacist
                  = IF stated # <<>> THEN lowest[1] ELSE remaining[1]
             /\ \A l \in 1..(k - 1) :
                  FillPick(l) =>
                    \E i, j \in 1..Len(WardArea) :
                      /\ i <= j
                      /\ WardArea[i] = daily_rota.ward_assignments[l].ward_area
                      /\ WardArea[j] = w

\* the fill pass passed over the head of the pool, who ranks the ward 2, for
\* the second pharmacist, who ranks it 1, and later gave a ward to a
\* pharmacist who states no rank for it
C25_Witness ==
    /\ WardsDone
    /\ Len(before.pool) = 3
    /\ \E k \in 1..Len(daily_rota.ward_assignments) :
         /\ FillPick(k)
         /\ daily_rota.ward_assignments[k].pharmacist = before.pool[2]
         /\ Ranks(before.pool[2], daily_rota.ward_assignments[k].ward_area) = {1}
         /\ Ranks(before.pool[1], daily_rota.ward_assignments[k].ward_area) = {2}
         /\ \A j \in 1..k : daily_rota.ward_assignments[j].pharmacist # before.pool[1]
    /\ \E k \in 1..Len(daily_rota.ward_assignments) :
         /\ FillPick(k)
         /\ Ranks(daily_rota.ward_assignments[k].pharmacist,
                  daily_rota.ward_assignments[k].ward_area) = {}

\* C26: with an ITU minimum above 0 for the day and an ITU-qualified
\* pharmacist in the pool, the first ward assignment gives ITU to the first
\* qualified pharmacist of the pool, who gets no other ward; with a minimum
\* of 0 or no ITU requirement the ITU pass assigns nobody, so ITU is held
\* only by pharmacists the home-ward pass sent to their own directorate.
C26_ItuPassFirstQualified ==
    WardsDone =>
      LET itu_trained == SelectSeq(before.pool, can_cover_itu)
          assigned == daily_rota.ward_assignments
      IN IF /\ <<"ITU", daily_rota.day>> \in DOMAIN ward_requirements
            /\ ward_requirements[<<"ITU", daily_rota.day>>].min_pharmacists > 0
            /\ itu_trained # <<>>
         THEN /\ assigned # <<>>
              /\ assigned[1].ward_area = "ITU"
              /\ assigned[1].pharmacist = itu_trained[1]
              /\ \A j \in 2..Len(assigned) :
                   /\ assigned[j].pharmacist # itu_trained[1]
                   /\ assigned[j].ward_area = "ITU"
                        => assigned[j].pharmacist.primary_directorate = "ITU"
         ELSE \A j \in 1..Len(assigned) :
                assigned[j].ward_area = "ITU"
                  => /\ assigned[j].pharmacist.primary_directorate = "ITU"
                     /\ <<"ITU", daily_rota.day>> \in DOMAIN ward_requirements

\* ITU asks for one pharmacist; the head of the pool is not qualified, and
\* the second pharmacist, qualified and at home on MEDICINE, is sent to ITU
\* by the first assignment
C26_Witness ==
    /\ WardsDone
    /\ Len(before.pool) >= 2
    /\ ~can_cover_itu(before.pool[1])
    /\ can_cover_itu(before.pool[2])
    /\ before.pool[2].primary_directorate = "MEDICINE"
    /\ ward_requirements = CustomRequirements
    /\ ward_requirements[<<"ITU", daily_rota.day>>].min_pharmacists = 1
    /\ daily_rota.ward_assignments[1].ward_area = "ITU"
    /\ daily_rota.ward_assignments[1].pharmacist = before.pool[2]

\* C27: the balancer rewrites only the holder of dispensary shifts that had
\* one: the start date, every day's date, clinic assignments, ward
\* assignments and lunch cover, the number, day and slot of the dispensary
\* shifts, and every unassigned shift are as they were before the pass.
C27_BalancerRewritesHoldersOnly ==
    Balanced =>
      /\ weekly_rota.start_date = before.rota.start_date
      /\ DOMAIN weekly_rota.daily_rotas = DOMAIN before.rota.daily_rotas
      /\ \A d \in DOMAIN before.rota.daily_rotas :
           /\ [weekly_rota.daily_rotas[d] EXCEPT
                 !.dispensary_shifts = before.rota.daily_rotas[d].dispensary_shifts]
                = before.rota.daily_rotas[d]
           /\ Len(weekly_rota.daily_rotas[d].dispensary_shifts)
                = Len(before.rota.daily_rotas[d].dispensary_shifts)
           /\ \A i \in 1..Len(before.rota.daily_rotas[d].dispensary_shifts) :
                /\ weekly_rota.daily_rotas[d].dispensary_shifts[i].day
                     = before.rota.daily_rotas[d].dispensary_shifts[i].day
                /\ weekly_rota.daily_rotas[d].dispensary_shifts[i].slot
                     = before.rota.daily_rotas[d].dispensary_shifts[i].slot
                /\ before.rota.daily_rotas[d].dispensary_shifts[i].assigned_pharmacist = None
                     <=> weekly_rota.daily_rotas[d].dispensary_shifts[i].assigned_pharmacist
                           = None

\* the balancer moved a shift on a day that holds a lunch cover, a clinic
\* assignment and an unassigned shift, in a week that holds ward assignments
C27_Witness ==
    /\ Balanced
    /\ \E d \in Days :
         /\ \E i \in 1..Len(DISPENSARY_SLOTS) : Moved(d, i)
         /\ weekly_rota.daily_rotas[d].lunch_cover # None
         /\ weekly_rota.daily_rotas[d].clinic_assignments # <<>>
         /\ None \in Range(ShiftHolders(weekly_rota.daily_rotas[d]))
    /\ \E d \in Days : weekly_rota.daily_rotas[d].ward_assignments # <<>>

\* the shifts of the week that changed hands, as <<day, index>>
MovedShifts ==
    {s \in Days \X (1..Len(DISPENSARY_SLOTS)) : Moved(s[1], s[2])}

\* C28: the balancer moves no count past its threshold: a pharmacist with
\* fewer shifts after the pass than before keeps at least 3, one with more
\* holds at most 2, nobody both gives and receives a shift, and the week
\* holds as many assigned shifts as before.
C28_CountsStopAtThresholds ==
    Balanced =>
      /\ \A p \in Range(pharmacists) :
           /\ WeeklyShifts(weekly_rota, p) < WeeklyShifts(before.rota, p)
                => WeeklyShifts(weekly_rota, p) >= 3
           /\ WeeklyShifts(weekly_rota, p) > WeeklyShifts(before.rota, p)
                => WeeklyShifts(weekly_rota, p) <= 2
           /\ ~ \E s, t \in MovedShifts :
                  /\ before.rota.daily_rotas[s[1]].dispensary_shifts[s[2]]
                       .assigned_pharmacist = Some(p)
                  /\ weekly_rota.daily_rotas[t[1]].dispensary_shifts[t[2]]
                       .assigned_pharmacist = Some(p)
      /\ Len(HolderIds(weekly_rota, Day)) = Len(HolderIds(before.rota, Day))

\* a pharmacist came down from 4 shifts to 3 and another went up from 1 to 2
C28_Witness ==
    /\ Balanced
    /\ \E p, q \in Range(pharmacists) :
         /\ WeeklyShifts(before.rota, p) = 4
         /\ WeeklyShifts(weekly_rota, p) = 3
         /\ WeeklyShifts(before.rota, q) = 1
         /\ WeeklyShifts(weekly_rota, q) = 2

\* C29: _generate_daily_rota builds the rota of a day somebody is available
\* on with four dispensary shift records, of which either all have a holder
\* or none has; none has exactly when every pharmacist available that day
\* holds a clinic assignment.
C29_SlotsAllOrNone ==
    call = "_generate_daily_rota" /\ before.pool # <<>> =>
      /\ outcome.exc = ""
      /\ Len(outcome.val[1].dispensary_shifts) = Len(DISPENSARY_SLOTS)
      /\ Len(AssignedDispensary(outcome.val[1])) \in {0, Len(DISPENSARY_SLOTS)}
      /\ AssignedDispensary(outcome.val[1]) = <<>>
           <=> \A p \in Range(before.pool) : p \in ClinicStaff(outcome.val[1])

\* C30: on a requirement table with 0 <= minimum <= ideal in every entry,
\* _assign_ward_areas gives no ward more pharmacists than its ideal count
\* for the day, and none to a ward without an entry for the day.
C30_WardsWithinIdeal ==
    /\ WardsDone
    /\ \A k \in DOMAIN ward_requirements :
         /\ 0 <= ward_requirements[k].min_pharmacists
         /\ ward_requirements[k].min_pharmacists
              <= ward_requirements[k].ideal_pharmacists
    => \A w \in Wards :
         IF <<w, daily_rota.day>> \in DOMAIN ward_requirements
         THEN WardCount(daily_rota, w)
                <= ward_requirements[<<w, daily_rota.day>>].ideal_pharmacists
         ELSE WardCount(daily_rota, w) = 0

\* SURGERY, ideal count 1, holds one of two pharmacists at home there, and a
\* pharmacist at home on CARE_OF_ELDERLY, which has no entry, is left idle
C30_Witness ==
    /\ WardsDone
    /\ ward_requirements = SparseRequirements
    /\ <<"SURGERY", daily_rota.day>> \in DOMAIN ward_requirements
    /\ WardCount(daily_rota, "SURGERY") = 1
    /\ Cardinality({p \in Range(before.pool) : p.primary_directorate = "SURGERY"}) = 2
    /\ \E q \in Range(Idle) : q.primary_directorate = "CARE_OF_ELDERLY"

====
